---------------------------- MODULE Spec2Model ----------------------------
(***************************************************************************)
(* Client-side thread-state reconciliation of the deep-agents chat UI.     *)
(*                                                                         *)
(*   SpecPolling : the useChatNoStreaming hook (sendMessage, loadThread,   *)
(*                 stopStream, clearMessages), the page state it writes    *)
(*                 (threadId, todos, files) and the remote service's       *)
(*                 thread list.                                            *)
(*   SpecProjector : the processedMessages projection of the message       *)
(*                 sequence (tool-call views joined to their results).     *)
(***************************************************************************)
EXTENDS Integers, Sequences, FiniteSets

(***************************************************************************)
(* Bounds of the model.                                                    *)
(***************************************************************************)
\* sendMessage / loadThread invocations started in one behaviour
MaxOps == 2
\* threads that exist on the remote service (all sessions together)
MaxThreads == 2
\* length of the message sequence given to the projector
MaxLen == 3

(***************************************************************************)
(* JavaScript values.  undefined and null are the string Undefined/Null;   *)
(* "" is the empty string.  All three are falsy.                           *)
(***************************************************************************)
Null == "null"
Undefined == "undefined"
Empty == ""

Falsy(x) == x \in {Null, Undefined, Empty}

\* a || b on strings
JsOr(a, b) == IF Falsy(a) THEN b ELSE a

\* uuidv4(): the i-th invocation draws a fresh id
Uuids == <<"h1", "h2", "h3", "h4">>
uuidv4(i) == Uuids[i]

\* thread ids the remote service assigns, in creation order
ThreadNames == <<"t1", "t2", "t3", "t4">>

\* run ids the remote service assigns
RunId(i) == <<"r1", "r2", "r3", "r4">>[i]

(***************************************************************************)
(* Messages.  A message is a record of the fields the code reads; an       *)
(* optional array field has a has-flag (an absent array and an empty array *)
(* differ in JavaScript: [] is truthy).                                    *)
(***************************************************************************)
StringContent(text) == [isArray |-> FALSE, text |-> text, blocks |-> <<>>]
ArrayContent(blocks) == [isArray |-> TRUE, text |-> Empty, blocks |-> blocks]

Message(id, type, content) ==
  [id |-> id, type |-> type, content |-> content,
   hasKwargsToolCalls |-> FALSE, kwargsToolCalls |-> <<>>,
   hasToolCalls |-> FALSE, toolCalls |-> <<>>,
   tool_call_id |-> Undefined]

\* the optimistic message of sendMessage
HumanMessage(id, content) == Message(id, "human", StringContent(content))

AiMessage(id, text) == Message(id, "ai", StringContent(text))

Range(s) == {s[k] : k \in 1..Len(s)}

NoRepeat(q) == \A a, b \in 1..Len(q) : a # b => q[a] # q[b]

\* sequences over S of length at most n without a repeated element
RECURSIVE UniqueSeqs(_, _)
UniqueSeqs(S, n) ==
  IF n = 0 THEN {<<>>}
  ELSE LET shorter == UniqueSeqs(S, n - 1)
           longer == {Append(q, x) : q \in shorter, x \in S}
       IN shorter \cup {q \in longer : NoRepeat(q)}

(***************************************************************************)
(* ThreadState snapshot values ({messages, todos?, files?}); each field    *)
(* may be missing (the code reads them with ?.).  files, a mapping from    *)
(* path to content, is the set of its <<path, content>> pairs.             *)
(***************************************************************************)
Values(hasMessages, msgs, hasTodos, tds, hasFiles, fls) ==
  [hasMessages |-> hasMessages, messages |-> msgs,
   hasTodos |-> hasTodos, todos |-> tds,
   hasFiles |-> hasFiles, files |-> fls]

NoValues == Values(FALSE, <<>>, FALSE, <<>>, FALSE, {})

TodoItem == [id |-> "1", content |-> "write hook", status |-> "pending"]

\* a message of the thread's earlier history
OlderMessage == HumanMessage("h0", "Ola")

\* what the service may answer for messages, todos and files:
\* <<present, value>>.  The state of the thread a send ran on holds the
\* agent's reply, with or without the message just sent.
SendMessagesAnswers(i) ==
  {<<FALSE, <<>>>>, <<TRUE, <<>>>>, <<TRUE, <<AiMessage("a1", "Oi")>>>>,
   <<TRUE, <<HumanMessage(uuidv4(i), "Ola"), AiMessage("a1", "Oi")>>>>}

LoadMessagesAnswers ==
  {<<FALSE, <<>>>>, <<TRUE, <<>>>>,
   <<TRUE, <<OlderMessage, AiMessage("a1", "Oi")>>>>}

NoTodos == {<<FALSE, <<>>>>}
NoFiles == {<<FALSE, {}>>}
TodosAnswers == {<<FALSE, <<>>>>, <<TRUE, <<>>>>, <<TRUE, <<TodoItem>>>>}
FilesAnswers == {<<FALSE, {}>>, <<TRUE, {<<"hook1.txt", "copy">>}>>}

\* every snapshot the service may return, given the answers per field
Snapshots(MA, TA, FA) ==
  {Values(m[1], m[2], t[1], t[2], f[1], f[2]) : m \in MA, t \in TA, f \in FA}

\* err.message of a failed network call (possibly empty)
ErrMessages == {"Network error", Empty}

(***************************************************************************)
(* State.                                                                  *)
(***************************************************************************)
VARIABLES
  threadId,           \* the page's thread identity (string | null)
  messages,           \* the message store
  isLoading,          \* useChatNoStreaming: isLoading
  error,              \* useChatNoStreaming: error (string | null)
  todos,              \* the page's todos
  files,              \* the page's files
  ops,                \* the sendMessage / loadThread invocations
  nOps,               \* how many invocations have started
  threads,            \* the remote service's threads, oldest first
  processedMessages,  \* the projection of the message store
  prevProcessed,      \* the projection computed before the current one
  todosTimeoutRef,    \* useChat: the debounce timer of the todos channel
  filesTimeoutRef,    \* useChat: the debounce timer of the files channel
  timers,             \* the browser's pending timeouts
  localStorage,       \* the browser's local storage: key -> stored string
  stream,             \* useStream: the run it follows
  fetching,           \* the page's thread-state fetches in flight
  received,           \* per channel, the values update events carried
  delivered,          \* per channel, the values the page callbacks got
  history,            \* the history sidebar: its threads and their groups
  last                \* the step just taken and what it saw

vars == <<threadId, messages, isLoading, error, todos, files, ops, nOps,
          threads, processedMessages, prevProcessed, todosTimeoutRef,
          filesTimeoutRef, timers, localStorage, stream, fetching,
          received, delivered, history, last>>

pollingVars == <<threadId, isLoading, error, todos, files, ops, nOps, threads>>

projectorVars == <<processedMessages, prevProcessed>>

historyVars == <<history>>

\* the sidebar before its first fetch: no threads, nothing rendered
NoHistory ==
  [response |-> <<>>, threads |-> <<>>, rendered |-> FALSE, now |-> 0,
   groupedThreads |-> [today |-> <<>>, yesterday |-> <<>>, week |-> <<>>,
                       older |-> <<>>]]

streamingVars == <<todosTimeoutRef, filesTimeoutRef, timers, localStorage,
                   stream, fetching, received, delivered>>

\* useRef<NodeJS.Timeout>(): no timer id yet
NoTimer == 0

\* the streaming hook and the page's fetch effect before anything happened
InitStreamingVars ==
  /\ todosTimeoutRef = NoTimer
  /\ filesTimeoutRef = NoTimer
  /\ timers = [todos |-> {}, files |-> {}]
  /\ localStorage = [key \in {} |-> Null]
  /\ stream = [run |-> 0, thread |-> Null, announced |-> TRUE,
              stopped |-> {}]
  /\ fetching = {}
  /\ received = [todos |-> <<>>, files |-> <<>>]
  /\ delivered = [todos |-> <<>>, files |-> <<>>]

\* an invocation slot not yet used
NoOp ==
  [kind |-> "none", pc |-> "idle", threadId |-> Null, stateValues |-> NoValues,
   runId |-> Empty, created |-> Empty, pre |-> <<>>]

\* what a step records of itself
Step(op, i, at, values, found) ==
  [op |-> op, i |-> i, at |-> at, threadId |-> ops[i].threadId,
   values |-> values, found |-> found,
   created |-> ops[i].created, pre |-> ops[i].pre]

\* a step of the user or of another session: no invocation of its own
UserStep(op) ==
  [op |-> op, i |-> 0, at |-> "idle", threadId |-> Null,
   values |-> NoValues, found |-> <<>>,
   created |-> Empty, pre |-> <<>>]

InFlight(o) == o.kind # "none" /\ o.pc \notin {"idle", "done"}

(***************************************************************************)
(* useChatNoStreaming: the pieces of sendMessage and loadThread.           *)
(***************************************************************************)
\* mutant: tests only for the empty string, not for null
IsNewThreadEmptyOnly(tid) == tid = Empty

\* if (!threadId): a new thread, created by wait()
IsNewThread(tid) == Falsy(tid)

\* mutant: puts the optimistic message first
AppendOptimisticFirst(prev, humanMessage) == <<humanMessage>> \o prev

\* setMessages((prev) => [...prev, humanMessage])
AppendOptimistic(prev, humanMessage) == Append(prev, humanMessage)

\* mutant: merges the snapshot into the store instead of replacing it
ReplaceAllMerged(prev, values) ==
  IF values.hasMessages THEN prev \o values.messages ELSE prev

\* if (threadState.values?.messages) setMessages(threadState.values.messages)
ReplaceAll(prev, values) ==
  IF values.hasMessages THEN values.messages ELSE prev

\* mutant: the snapshot's todos are not delivered
UpdateTodosNever(prev, values) == prev

\* if (threadState.values?.todos) onTodosUpdate(threadState.values.todos)
UpdateTodos(prev, values) == IF values.hasTodos THEN values.todos ELSE prev

\* a send that never calls onFilesUpdate
UpdateFilesNever(prev, values) == prev

\* if (threadState.values?.files) onFilesUpdate(threadState.values.files)
UpdateFiles(prev, values) == IF values.hasFiles THEN values.files ELSE prev

\* mutant: reads the second result of the listing (threads[1])
FinalThreadIdSecond(found) ==
  IF Len(found) < 2 THEN Empty ELSE JsOr(found[2].thread_id, Empty)

\* finalThreadId = threads[0]?.thread_id || ""
FinalThreadId(found) ==
  IF Len(found) = 0 THEN Empty ELSE JsOr(found[1].thread_id, Empty)

\* if (!threadId && finalThreadId) setThreadId(finalThreadId)
UpdateThreadId(current, tid, finalThreadId) ==
  IF Falsy(tid) /\ ~Falsy(finalThreadId) THEN finalThreadId ELSE current

\* mutant: no fallback text for an empty err.message
SendErrorMessageRaw(errMessage) == errMessage

\* err.message || "Erro ao enviar mensagem"
SendErrorMessage(errMessage) == JsOr(errMessage, "Erro ao enviar mensagem")

\* err.message || "Erro ao carregar thread"
LoadErrorMessage(errMessage) == JsOr(errMessage, "Erro ao carregar thread")

\* mutant: no rollback of the optimistic message
RemoveOptimisticNever(prev, id) == prev

\* setMessages((prev) => prev.filter((msg) => msg.id !== humanMessage.id))
RemoveOptimistic(prev, id) == SelectSeq(prev, LAMBDA msg : msg.id # id)

\* client.threads.search({ limit: 1 }): at most the most recent thread; the
\* service may also answer with no thread at all
SearchAnswers ==
  {<<>>} \cup
  (IF Len(threads) = 0 THEN {}
   ELSE {<<[thread_id |-> threads[Len(threads)]]>>})

\* the thread id an outstanding network call of invocation o is issued with
CallThreadId(o) ==
  CASE o.pc = "wait" -> Null
    [] o.pc \in {"create", "join", "getState"} -> o.threadId
    [] OTHER -> Undefined

\* mutant: the effect does not clear the store
EffectMessagesNever(oldThreadId, newThreadId, msgs) == msgs

\* useEffect(() => { if (!threadId) { setMessages([]); setError(null) } },
\* [threadId]): runs when the identity has changed
EffectMessages(oldThreadId, newThreadId, msgs) ==
  IF newThreadId # oldThreadId /\ Falsy(newThreadId) THEN <<>> ELSE msgs

EffectError(oldThreadId, newThreadId, err) ==
  IF newThreadId # oldThreadId /\ Falsy(newThreadId) THEN Null ELSE err

\* submit handlers that dispatch whatever isLoading is
CanSubmitAlways(loading) == TRUE

\* handleSubmit: if (!messageText || isLoading) return; the form's submit
\* button is disabled while isLoading
CanSubmit(loading) == ~loading

(***************************************************************************)
(* sendMessage(content), dispatched by the UI's submit handlers: up to the *)
(* first await.                                                            *)
(***************************************************************************)
sendMessage(content) ==
  /\ nOps < MaxOps
  /\ CanSubmit(isLoading)
  /\ LET i == nOps + 1
         humanMessage == HumanMessage(uuidv4(i), content)
         newMessages == AppendOptimistic(messages, humanMessage)
     IN /\ isLoading' = TRUE
        /\ error' = Null
        /\ messages' = newMessages
        /\ nOps' = i
        /\ ops' = [ops EXCEPT ![i] =
                     [NoOp EXCEPT !.kind = "send",
                                  !.pc = IF IsNewThread(threadId)
                                         THEN "wait" ELSE "create",
                                  !.threadId = threadId,
                                  !.pre = messages]]
        /\ last' = [Step("sendMessage", i, "start", NoValues, <<>>)
                      EXCEPT !.threadId = threadId, !.pre = messages]
  /\ UNCHANGED <<threadId, todos, files, threads, projectorVars,
                 historyVars, streamingVars>>

\* lines 119-139 and the finally block: the run succeeded with threadState
Succeed(i, values, finalThreadId, found) ==
  LET newMessages == ReplaceAll(messages, values)
      newThreadId == UpdateThreadId(threadId, ops[i].threadId, finalThreadId)
  IN /\ messages' = EffectMessages(threadId, newThreadId, newMessages)
     /\ todos' = UpdateTodos(todos, values)
     /\ files' = UpdateFiles(files, values)
     /\ threadId' = newThreadId
     /\ error' = EffectError(threadId, newThreadId, error)
     /\ isLoading' = FALSE
     /\ ops' = [ops EXCEPT ![i] =
                  [NoOp EXCEPT !.pc = "done"]]
     /\ last' = Step("sendSucceeded", i, ops[i].pc, values, found)
     /\ UNCHANGED <<nOps, projectorVars, historyVars, streamingVars>>

\* mutant: no finally block, isLoading stays as it is
FailStuck(i, errMessage) ==
  LET newMessages == RemoveOptimistic(messages, uuidv4(i))
  IN /\ error' = SendErrorMessage(errMessage)
     /\ messages' = newMessages
     /\ ops' = [ops EXCEPT ![i] =
                  [NoOp EXCEPT !.pc = "done"]]
     /\ last' = Step("sendFailed", i, ops[i].pc, NoValues, <<>>)
     /\ UNCHANGED <<threadId, isLoading, todos, files, nOps, threads,
                    projectorVars, historyVars, streamingVars>>

\* the catch and finally blocks: a network call of the send threw
Fail(i, errMessage) ==
  LET newMessages == RemoveOptimistic(messages, uuidv4(i))
  IN /\ error' = SendErrorMessage(errMessage)
     /\ messages' = newMessages
     /\ isLoading' = FALSE
     /\ ops' = [ops EXCEPT ![i] =
                  [NoOp EXCEPT !.pc = "done"]]
     /\ last' = Step("sendFailed", i, ops[i].pc, NoValues, <<>>)
     /\ UNCHANGED <<threadId, todos, files, nOps, threads, projectorVars,
                    historyVars,
                    streamingVars>>

\* client.runs.wait(null, ...) returns the new thread's state values; the
\* service has created the thread
WaitReturns(i, values) ==
  /\ ops[i].kind = "send" /\ ops[i].pc = "wait"
  /\ Len(threads) < MaxThreads
  /\ LET created == ThreadNames[Len(threads) + 1]
     IN /\ threads' = Append(threads, created)
        /\ ops' = [ops EXCEPT ![i].pc = "search",
                              ![i].stateValues = values,
                              ![i].created = created]
        /\ last' = Step("waitReturned", i, "wait", values, Empty)
  /\ UNCHANGED <<threadId, messages, isLoading, error, todos, files, nOps,
                 projectorVars, historyVars, streamingVars>>

\* client.threads.search({ limit: 1 }) returns: the new-thread branch ends
SearchReturns(i, found) ==
  /\ ops[i].kind = "send" /\ ops[i].pc = "search"
  /\ Succeed(i, ops[i].stateValues, FinalThreadId(found), found)
  /\ UNCHANGED threads

\* a create whose return is followed by getState, without the join
CreateReturnsSkipJoin(i) ==
  /\ ops[i].kind = "send" /\ ops[i].pc = "create"
  /\ ops' = [ops EXCEPT ![i].pc = "getState", ![i].runId = RunId(i)]
  /\ last' = Step("createReturned", i, "create", NoValues, <<>>)
  /\ UNCHANGED <<threadId, messages, isLoading, error, todos, files, nOps,
                 threads, projectorVars, historyVars, streamingVars>>

\* client.runs.create(threadId, ...) returns the run
CreateReturns(i) ==
  /\ ops[i].kind = "send" /\ ops[i].pc = "create"
  /\ ops' = [ops EXCEPT ![i].pc = "join", ![i].runId = RunId(i)]
  /\ last' = Step("createReturned", i, "create", NoValues, <<>>)
  /\ UNCHANGED <<threadId, messages, isLoading, error, todos, files, nOps,
                 threads, projectorVars, historyVars, streamingVars>>

\* client.runs.join(threadId, response.run_id) returns
JoinReturns(i) ==
  /\ ops[i].kind = "send" /\ ops[i].pc = "join"
  /\ ops' = [ops EXCEPT ![i].pc = "getState"]
  /\ last' = Step("joinReturned", i, "join", NoValues, <<>>)
  /\ UNCHANGED <<threadId, messages, isLoading, error, todos, files, nOps,
                 threads, projectorVars, historyVars, streamingVars>>

\* client.threads.getState(threadId) returns: the existing-thread branch ends
GetStateReturns(i, values) ==
  /\ ops[i].kind = "send" /\ ops[i].pc = "getState"
  /\ Succeed(i, values, ops[i].threadId, <<>>)
  /\ UNCHANGED threads

\* any of wait, search, create, join, getState throws
CallFails(i, errMessage) ==
  /\ ops[i].kind = "send"
  /\ ops[i].pc \in {"wait", "search", "create", "join", "getState"}
  /\ Fail(i, errMessage)

(***************************************************************************)
(* loadThread(targetThreadId).                                             *)
(***************************************************************************)
loadThread(targetThreadId) ==
  /\ nOps < MaxOps
  /\ LET i == nOps + 1
     IN /\ isLoading' = TRUE
        /\ error' = Null
        /\ nOps' = i
        /\ ops' = [ops EXCEPT ![i] =
                     [NoOp EXCEPT !.kind = "load", !.pc = "getState",
                                  !.threadId = targetThreadId,
                                  !.pre = messages]]
        /\ last' = [Step("loadThread", i, "start", NoValues, <<>>)
                      EXCEPT !.threadId = targetThreadId, !.pre = messages]
  /\ UNCHANGED <<threadId, messages, todos, files, threads, projectorVars,
                 historyVars,
                 streamingVars>>

LoadReturns(i, values) ==
  /\ ops[i].kind = "load" /\ ops[i].pc = "getState"
  /\ LET newMessages == ReplaceAll(messages, values)
     IN /\ messages' = newMessages
        /\ todos' = UpdateTodos(todos, values)
        /\ files' = UpdateFiles(files, values)
        /\ isLoading' = FALSE
        /\ ops' = [ops EXCEPT ![i] =
                     [NoOp EXCEPT !.pc = "done"]]
        /\ last' = Step("loadSucceeded", i, "getState", values, Empty)
  /\ UNCHANGED <<threadId, error, nOps, threads, projectorVars,
                 historyVars, streamingVars>>

LoadFails(i, errMessage) ==
  /\ ops[i].kind = "load" /\ ops[i].pc = "getState"
  /\ error' = LoadErrorMessage(errMessage)
  /\ isLoading' = FALSE
  /\ ops' = [ops EXCEPT ![i] = [NoOp EXCEPT !.pc = "done"]]
  /\ last' = Step("loadFailed", i, "getState", NoValues, <<>>)
  /\ UNCHANGED <<threadId, messages, todos, files, nOps, threads,
                 projectorVars, historyVars, streamingVars>>

\* mutant: stop cancels what is in flight
stopStreamCancels ==
  /\ isLoading' = FALSE
  /\ ops' = [k \in 1..MaxOps |->
              IF InFlight(ops[k]) THEN [NoOp EXCEPT !.pc = "done"] ELSE ops[k]]
  /\ last' = UserStep("stopStream")
  /\ UNCHANGED <<threadId, messages, error, todos, files, nOps, threads,
                 projectorVars, historyVars, streamingVars>>

\* stopStream(): a no-op
stopStream ==
  /\ last' = UserStep("stopStream")
  /\ UNCHANGED <<threadId, messages, isLoading, error, todos, files, ops,
                 nOps, threads, projectorVars, historyVars, streamingVars>>

\* clearMessages()
clearMessages ==
  /\ messages' = <<>>
  /\ error' = Null
  /\ last' = UserStep("clearMessages")
  /\ UNCHANGED <<threadId, isLoading, todos, files, ops, nOps, threads,
                 projectorVars, historyVars, streamingVars>>

(***************************************************************************)
(* The user and the other sessions.                                        *)
(***************************************************************************)
\* handleThreadSelect(id): the user picks a thread of the history list
handleThreadSelect(id) ==
  /\ id # threadId
  /\ threadId' = id
  /\ messages' = EffectMessages(threadId, id, messages)
  /\ error' = EffectError(threadId, id, error)
  /\ last' = UserStep("handleThreadSelect")
  /\ UNCHANGED <<isLoading, todos, files, ops, nOps, threads, projectorVars,
                 historyVars,
                 streamingVars>>

\* handleNewThread(): the new-conversation button (disabled while the store
\* is empty); the page resets the identity and its todos and files
handleNewThread ==
  /\ Len(messages) > 0
  /\ threadId' = Null
  /\ todos' = <<>>
  /\ files' = {}
  /\ messages' = EffectMessages(threadId, Null, messages)
  /\ error' = EffectError(threadId, Null, error)
  /\ last' = UserStep("handleNewThread")
  /\ UNCHANGED <<isLoading, ops, nOps, threads, projectorVars,
                 historyVars, streamingVars>>

\* another session creates a thread on the same service
OtherSessionCreates ==
  /\ Len(threads) < MaxThreads
  /\ threads' = Append(threads, ThreadNames[Len(threads) + 1])
  /\ last' = UserStep("otherSessionCreates")
  /\ UNCHANGED <<threadId, messages, isLoading, error, todos, files, ops,
                 nOps, projectorVars, historyVars, streamingVars>>

InitPolling ==
  /\ threadId = Null
  /\ messages = <<>>
  /\ isLoading = FALSE
  /\ error = Null
  /\ todos = <<>>
  /\ files = {}
  /\ ops = [k \in 1..MaxOps |-> NoOp]
  /\ nOps = 0
  /\ threads = <<>>
  /\ processedMessages = <<>>
  /\ prevProcessed = <<>>
  /\ InitStreamingVars
  /\ history = NoHistory
  /\ last = UserStep("init")

NextPolling(TA, FA) ==
  \/ \E content \in {"Ola"} : sendMessage(content)
  \/ \E i \in 1..MaxOps :
       \E values \in Snapshots(SendMessagesAnswers(i), TA, FA) :
         WaitReturns(i, values)
  \/ \E i \in 1..MaxOps : \E found \in SearchAnswers : SearchReturns(i, found)
  \/ \E i \in 1..MaxOps : CreateReturns(i)
  \/ \E i \in 1..MaxOps : JoinReturns(i)
  \/ \E i \in 1..MaxOps :
       \E values \in Snapshots(SendMessagesAnswers(i), TA, FA) :
         GetStateReturns(i, values)
  \/ \E i \in 1..MaxOps : \E m \in ErrMessages : CallFails(i, m)
  \/ \E id \in Range(threads) : loadThread(id)
  \/ \E i \in 1..MaxOps :
       \E values \in Snapshots(LoadMessagesAnswers, TA, FA) :
         LoadReturns(i, values)
  \/ \E i \in 1..MaxOps : \E m \in ErrMessages : LoadFails(i, m)
  \/ stopStream
  \/ clearMessages
  \/ \E id \in Range(threads) : handleThreadSelect(id)
  \/ handleNewThread
  \/ OtherSessionCreates

\* the hook with the service answering messages only
SpecPolling == InitPolling /\ [][NextPolling(NoTodos, NoFiles)]_vars

(***************************************************************************)
(* Properties of the Polling variant.                                      *)
(***************************************************************************)
HasId(msgs, id) == \E k \in 1..Len(msgs) : msgs[k].id = id

\* the send that has just succeeded ran the new-thread branch
NewThreadSendSucceeded == last.op = "sendSucceeded" /\ last.at = "search"

\* C1: when a send has appended its optimistic message and succeeds with a
\* snapshot whose messages contain that message's id, the store after the send
\* is the snapshot's message sequence exactly, whatever the store held before.
C1_Convergence ==
  (/\ last.op = "sendSucceeded"
   /\ last.values.hasMessages
   /\ HasId(last.values.messages, uuidv4(last.i)))
  => messages = last.values.messages

\* C1 witness: a send that started on a non-empty store has succeeded with a
\* snapshot that contains its optimistic message.
C1_Witness ==
  /\ last.op = "sendSucceeded"
  /\ Len(last.pre) > 0
  /\ last.values.hasMessages
  /\ HasId(last.values.messages, uuidv4(last.i))
  /\ messages = last.values.messages

\* C2 as stated: after a failed send the store is the store from immediately
\* before the send.
C2_RollbackToPreSend ==
  last.op = "sendFailed" => messages = last.pre

\* C2 amended: a failed send, at whichever call it fails, leaves the store as
\* it was immediately before the failure with the optimistic message removed
\* and every other element kept in order; when the store was still the
\* pre-send store followed by the optimistic message, that is the pre-send
\* store, element for element.
C2_Rollback ==
  [][last'.op = "sendFailed" =>
       /\ messages' = SelectSeq(messages, LAMBDA m : m.id # uuidv4(last'.i))
       /\ (messages = Append(last'.pre, HumanMessage(uuidv4(last'.i), "Ola"))
             => messages' = last'.pre)]_vars

\* C2 witness: a send that started on a non-empty store has failed and the
\* store is the pre-send store again.
C2_Witness ==
  /\ last.op = "sendFailed"
  /\ last.at = "getState"
  /\ Len(last.pre) > 0
  /\ messages = last.pre

\* C3: no step of a send that fails (its start, the return of create or join,
\* the failure itself) changes the thread identity, and after the failure
\* the error field holds a non-empty message.
C3_FailureFrame ==
  [][/\ last'.op \in {"sendMessage", "createReturned", "joinReturned",
                      "waitReturned", "sendFailed"} => threadId' = threadId
     /\ last'.op = "sendFailed" => ~Falsy(error')]_vars

\* C3 witness: a send on an assigned thread has failed with an empty
\* err.message; the identity is still assigned and the fallback text shows.
C3_Witness ==
  /\ last.op = "sendFailed"
  /\ threadId = last.threadId
  /\ ~Falsy(threadId)
  /\ error = "Erro ao enviar mensagem"

\* C4 as stated: after a send from identity none that completes without
\* error, the identity is assigned (never still none), whatever the listing
\* call returned.
C4_AssignedAfterSend ==
  (last.op = "sendSucceeded" /\ Falsy(last.threadId)) => ~Falsy(threadId)

\* C5: a send issued with an assigned identity never has the wait or the
\* listing call outstanding, a send issued with identity none never has
\* create, join or getState outstanding, and create is never issued with a
\* null or empty thread id.
C5_PathChoice ==
  \A i \in 1..MaxOps :
    ops[i].kind = "send" =>
      /\ ops[i].pc \in {"wait", "search"} => Falsy(ops[i].threadId)
      /\ ops[i].pc \in {"create", "join", "getState"} =>
           ~Falsy(ops[i].threadId) /\ ~Falsy(CallThreadId(ops[i]))

\* C5 witness: a create call is outstanding for a send on an assigned thread
\* while the service also holds a thread created by an earlier wait call.
C5_Witness ==
  \E i \in 1..MaxOps :
    ops[i].kind = "send" /\ ops[i].pc = "create" /\ ops[i].threadId = "t1"

\* C6: when a send from identity none gets snapshot S from the wait call and
\* thread T from the listing call, the store is S's messages and the identity
\* is T after the send.
C6_EndToEnd ==
  (NewThreadSendSucceeded /\ last.values.hasMessages /\ Len(last.found) > 0)
  => /\ messages = last.values.messages
     /\ threadId = last.found[1].thread_id

\* C6 witness: "Ola" sent with identity none, the wait call returned two
\* messages, the listing returned t1.
C6_Witness ==
  /\ NewThreadSendSucceeded
  /\ last.pre = <<>>
  /\ messages = <<HumanMessage("h1", "Ola"), AiMessage("a1", "Oi")>>
  /\ threadId = "t1"

\* C7 as stated: the identity assigned by a send from identity none is the
\* thread its own wait call created.
C7_RecoversOwnThread ==
  (NewThreadSendSucceeded /\ Len(last.found) > 0) => threadId = last.created

\* C8 as stated: an assigned identity becomes none only by handleNewThread
\* and another assigned identity only by handleThreadSelect.
C8_IdentityTransitions ==
  [][/\ (~Falsy(threadId) /\ Falsy(threadId'))
          => last'.op = "handleNewThread"
     /\ (~Falsy(threadId) /\ ~Falsy(threadId') /\ threadId' # threadId)
          => last'.op = "handleThreadSelect"]_vars

(***************************************************************************)
(* The projector: processedMessages of CopyCreatorInterface.               *)
(*                                                                         *)
(* Tool-call descriptors and content blocks are records of one shape (a    *)
(* tool_use block is used as a tool-call descriptor); a field the object   *)
(* does not have is Undefined.  Arguments objects are strings.             *)
(***************************************************************************)
Item(id, name, type, fnName, fnArgs, args, input, text, isString) ==
  [id |-> id, name |-> name, type |-> type, fnName |-> fnName,
   fnArgs |-> fnArgs, args |-> args, input |-> input, text |-> text,
   isString |-> isString]

\* {id, name, args}: an element of message.tool_calls
ToolCallDescriptor(id, name, args) ==
  Item(id, name, Undefined, Undefined, Undefined, args, Undefined, Undefined,
       FALSE)

\* {id, type: "function", function: {name, arguments}}: an element of
\* message.additional_kwargs.tool_calls
KwargsToolCall(id, fnName, fnArgs) ==
  Item(id, Undefined, "function", fnName, fnArgs, Undefined, Undefined,
       Undefined, FALSE)

\* {type: "tool_use", id, name, input}: a block of message.content
ToolUseBlock(id, name, input) ==
  Item(id, name, "tool_use", Undefined, Undefined, Undefined, input,
       Undefined, FALSE)

\* {type: "text", text}: a block of message.content
TextBlock(text) ==
  Item(Undefined, Undefined, "text", Undefined, Undefined, Undefined,
       Undefined, text, FALSE)

\* a bare string in message.content
StringBlock(s) ==
  Item(Undefined, Undefined, Undefined, Undefined, Undefined, Undefined,
       Undefined, s, TRUE)

AiToolCalls(id, text, toolCalls) ==
  [AiMessage(id, text) EXCEPT !.hasToolCalls = TRUE, !.toolCalls = toolCalls]

AiKwargs(id, text, kwargsToolCalls, toolCalls) ==
  [AiToolCalls(id, text, toolCalls) EXCEPT !.hasKwargsToolCalls = TRUE,
                                            !.kwargsToolCalls = kwargsToolCalls]

AiBlocks(id, blocks) == Message(id, "ai", ArrayContent(blocks))

ToolMessage(id, tool_call_id, content) ==
  [Message(id, "tool", content) EXCEPT !.tool_call_id = tool_call_id]

\* Array.prototype.join(" ")
RECURSIVE Join(_)
Join(parts) ==
  IF Len(parts) = 0 THEN Empty
  ELSE IF Len(parts) = 1 THEN parts[1]
  ELSE parts[1] \o " " \o Join(Tail(parts))

\* String.prototype.trim()
RECURSIVE TrimStart(_)
TrimStart(s) ==
  IF Len(s) > 0 /\ SubSeq(s, 1, 1) = " "
  THEN TrimStart(SubSeq(s, 2, Len(s)))
  ELSE s

RECURSIVE TrimEnd(_)
TrimEnd(s) ==
  IF Len(s) > 0 /\ SubSeq(s, Len(s), Len(s)) = " "
  THEN TrimEnd(SubSeq(s, 1, Len(s) - 1))
  ELSE s

Trim(s) == TrimEnd(TrimStart(s))

extractStringFromMessageContent(message) ==
  IF ~message.content.isArray THEN message.content.text
  ELSE LET textBlocks ==
             SelectSeq(message.content.blocks,
                       LAMBDA block : block.type = "text" \/ block.isString)
       IN Trim(Join([k \in 1..Len(textBlocks) |-> textBlocks[k].text]))

\* Math.random(): the ids `tool-${Math.random()}` can take
RandomIds == {"tool-0.1", "tool-0.7"}

\* the descriptors of an ai message: additional_kwargs.tool_calls, else
\* tool_calls without the empty-named ones, else the tool_use blocks
toolCallsInMessage(message) ==
  IF message.hasKwargsToolCalls THEN message.kwargsToolCalls
  ELSE IF message.hasToolCalls
    THEN SelectSeq(message.toolCalls, LAMBDA toolCall : toolCall.name # Empty)
  ELSE IF message.content.isArray
    THEN SelectSeq(message.content.blocks,
                   LAMBDA block : block.type = "tool_use")
  ELSE <<>>

ToolCallName(toolCall) ==
  JsOr(toolCall.fnName, JsOr(toolCall.name, JsOr(toolCall.type, "unknown")))

ToolCallArgs(toolCall) ==
  JsOr(toolCall.fnArgs, JsOr(toolCall.args, JsOr(toolCall.input, "{}")))

\* how many descriptors get an id from Math.random()
NumIdless(toolCalls) ==
  Len(SelectSeq(toolCalls, LAMBDA toolCall : Falsy(toolCall.id)))

\* toolCall.id || `tool-${Math.random()}`: rnd is the sequence of values
\* Math.random() returns during one computation, used of them are consumed
ToolCallId(toolCalls, j, rnd, used) ==
  IF Falsy(toolCalls[j].id)
  THEN rnd[used + NumIdless(SubSeq(toolCalls, 1, j))]
  ELSE toolCalls[j].id

toolCallsWithStatus(toolCalls, rnd, used) ==
  [j \in 1..Len(toolCalls) |->
     [id |-> ToolCallId(toolCalls, j, rnd, used),
      name |-> ToolCallName(toolCalls[j]),
      args |-> ToolCallArgs(toolCalls[j]),
      status |-> "pending",
      result |-> Undefined]]

\* a map whose new keys go first
MapSetFirst(map, key, data) ==
  IF \E k \in 1..Len(map) : map[k].key = key
  THEN [k \in 1..Len(map) |-> IF map[k].key = key THEN data ELSE map[k]]
  ELSE <<data>> \o map

\* Map.prototype.set: a new key goes last, an existing key keeps its place
MapSet(map, key, data) ==
  IF \E k \in 1..Len(map) : map[k].key = key
  THEN [k \in 1..Len(map) |-> IF map[k].key = key THEN data ELSE map[k]]
  ELSE Append(map, data)

HasToolCall(data, toolCallId) ==
  \E j \in 1..Len(data.toolCalls) : data.toolCalls[j].id = toolCallId

\* findIndex
ToolCallIndex(data, toolCallId) ==
  CHOOSE j \in 1..Len(data.toolCalls) :
    /\ data.toolCalls[j].id = toolCallId
    /\ \A h \in 1..(j - 1) : data.toolCalls[h].id # toolCallId

\* a tool branch without the break: every view with the id is completed
CompleteToolCallAll(map, message) ==
  [k \in 1..Len(map) |->
     [map[k] EXCEPT !.toolCalls =
        [j \in 1..Len(map[k].toolCalls) |->
           IF map[k].toolCalls[j].id = message.tool_call_id
           THEN [map[k].toolCalls[j] EXCEPT
                   !.status = "completed",
                   !.result = extractStringFromMessageContent(message)]
           ELSE map[k].toolCalls[j]]]]

\* the tool branch: the first entry, in insertion order, that has a tool
\* call with the id gets it completed; no entry, no change
CompleteToolCall(map, message) ==
  IF \A k \in 1..Len(map) : ~HasToolCall(map[k], message.tool_call_id)
  THEN map
  ELSE LET k == CHOOSE e \in 1..Len(map) :
                  /\ HasToolCall(map[e], message.tool_call_id)
                  /\ \A d \in 1..(e - 1) :
                       ~HasToolCall(map[d], message.tool_call_id)
           j == ToolCallIndex(map[k], message.tool_call_id)
       IN [map EXCEPT ![k].toolCalls[j] =
             [@ EXCEPT !.status = "completed",
                       !.result = extractStringFromMessageContent(message)]]

\* one iteration of messages.forEach; acc.used counts the Math.random()
\* calls made so far
ProcessMessage(acc, message, rnd) ==
  IF message.type = "ai"
  THEN LET toolCalls == toolCallsInMessage(message)
       IN [map |-> MapSet(acc.map, message.id,
                          [key |-> message.id, message |-> message,
                           toolCalls |->
                             toolCallsWithStatus(toolCalls, rnd, acc.used)]),
           used |-> acc.used + NumIdless(toolCalls)]
  ELSE IF message.type = "tool"
  THEN IF Falsy(message.tool_call_id) THEN acc
       ELSE [acc EXCEPT !.map = CompleteToolCall(acc.map, message)]
  ELSE IF message.type = "human"
  THEN [acc EXCEPT !.map = MapSet(acc.map, message.id,
                                  [key |-> message.id, message |-> message,
                                   toolCalls |-> <<>>])]
  ELSE acc

RECURSIVE messageMap(_, _, _)
messageMap(acc, msgs, rnd) ==
  IF Len(msgs) = 0 THEN acc
  ELSE messageMap(ProcessMessage(acc, Head(msgs), rnd), Tail(msgs), rnd)

\* a projection that shows the avatar on every entry
ComputeProcessedMessagesAlways(msgs, rnd) ==
  LET processedArray == messageMap([map |-> <<>>, used |-> 0], msgs, rnd).map
  IN [index \in 1..Len(processedArray) |->
        [message |-> processedArray[index].message,
         toolCalls |-> processedArray[index].toolCalls,
         showAvatar |-> TRUE]]

\* the value of the processedMessages memo for msgs when Math.random()
\* returns rnd
ComputeProcessedMessages(msgs, rnd) ==
  LET processedArray == messageMap([map |-> <<>>, used |-> 0], msgs, rnd).map
  IN [index \in 1..Len(processedArray) |->
        [message |-> processedArray[index].message,
         toolCalls |-> processedArray[index].toolCalls,
         showAvatar |->
           IF index > 1
           THEN processedArray[index].message.type
                  # processedArray[index - 1].message.type
           ELSE TRUE]]

\* how many times one computation calls Math.random()
RECURSIVE NumRandomCalls(_)
NumRandomCalls(msgs) ==
  IF Len(msgs) = 0 THEN 0
  ELSE (IF Head(msgs).type = "ai"
        THEN NumIdless(toolCallsInMessage(Head(msgs))) ELSE 0)
       + NumRandomCalls(Tail(msgs))

RandomDraws(msgs) == [1..NumRandomCalls(msgs) -> RandomIds]

\* the messages the store may hold
ProjectorMessages ==
  {HumanMessage("h1", "Ola"),
   AiMessage("a0", "Oi"),
   AiToolCalls("a1", "Oi", <<ToolCallDescriptor("c1", "search", "{q}")>>),
   AiToolCalls("a2", Empty, <<ToolCallDescriptor(Undefined, "write", "{f}")>>),
   AiKwargs("a3", Empty, <<KwargsToolCall("c2", "plan", "{p}")>>,
            <<ToolCallDescriptor("c1", "search", "{q}")>>),
   AiKwargs("a4", "Oi", <<>>, <<ToolCallDescriptor("c1", "search", "{q}")>>),
   AiBlocks("a5", <<TextBlock("Oi"), ToolUseBlock("c3", "read", "{r}")>>),
   AiToolCalls("a6", Empty,
               <<ToolCallDescriptor("c4", Empty, "{x}"),
                 ToolCallDescriptor(Undefined, Undefined, Undefined)>>),
   AiToolCalls("a8", Empty, <<ToolCallDescriptor("c1", "fetch", "{u}")>>),
   ToolMessage("x1", "c1", StringContent("found")),
   ToolMessage("x2", "zz", StringContent("lost")),
   ToolMessage("x3", Undefined, StringContent("lost")),
   ToolMessage("x4", "c1",
               ArrayContent(<<TextBlock(" a"), StringBlock("b ")>>)),
   Message("s1", "system", StringContent("be brief"))}

\* the store is replaced by, or a stream event appends, a message
AppendMessage(message) ==
  /\ Len(messages) < MaxLen
  /\ message \notin Range(messages)
  /\ messages' = Append(messages, message)
  /\ \E rnd \in RandomDraws(messages') :
       processedMessages' = ComputeProcessedMessages(messages', rnd)
  /\ prevProcessed' = processedMessages
  /\ last' = UserStep("appendMessage")
  /\ UNCHANGED <<pollingVars, streamingVars, historyVars>>

\* the memo is computed again for a store holding the same sequence
Recompute ==
  /\ \E rnd \in RandomDraws(messages) :
       processedMessages' = ComputeProcessedMessages(messages, rnd)
  /\ prevProcessed' = processedMessages
  /\ last' = UserStep("recompute")
  /\ UNCHANGED <<messages, pollingVars, streamingVars, historyVars>>

InitProjector ==
  /\ threadId = Null
  /\ isLoading = FALSE
  /\ error = Null
  /\ todos = <<>>
  /\ files = {}
  /\ ops = [k \in 1..MaxOps |-> NoOp]
  /\ nOps = 0
  /\ threads = <<>>
  /\ messages \in UniqueSeqs(ProjectorMessages, MaxLen)
  /\ \E rnd \in RandomDraws(messages) :
       processedMessages = ComputeProcessedMessages(messages, rnd)
  /\ prevProcessed = <<>>
  /\ InitStreamingVars
  /\ history = NoHistory
  /\ last = UserStep("init")

NextProjector ==
  \/ \E message \in ProjectorMessages : AppendMessage(message)
  \/ Recompute

SpecProjector == InitProjector /\ [][NextProjector]_vars

(***************************************************************************)
(* Properties of the projector.                                            *)
(***************************************************************************)
\* the tool message matches no tool-call view of the projection
IsOrphan(message, processed) ==
  /\ message.type = "tool"
  /\ \/ Falsy(message.tool_call_id)
     \/ \A k \in 1..Len(processed) :
          ~HasToolCall(processed[k], message.tool_call_id)

\* C9 as stated: the projector is deterministic: computing the projection
\* again on the same message sequence, tool calls without an id included,
\* gives the same output with the same tool-call view ids.
C9_Deterministic ==
  last.op = "recompute" => processedMessages = prevProcessed

\* C10 as stated: appending a tool message that matches no tool-call view
\* (or has no tool_call_id) leaves the projection unchanged: same entries,
\* same tool-call views, statuses and results, no new entry.
C10_OrphanLeavesProjection ==
  (last.op = "appendMessage"
     /\ IsOrphan(messages[Len(messages)], prevProcessed))
    => processedMessages = prevProcessed

\* C11 as stated: as the message sequence grows by appended messages, a
\* tool-call view starts pending when its ai message is processed, and once
\* it is completed its status stays completed and its result is not changed
\* by later messages.
C11_Lifecycle ==
  [][last'.op = "appendMessage" =>
       /\ Len(processedMessages') >= Len(processedMessages)
       /\ \A k \in 1..Len(processedMessages') :
            \A j \in 1..Len(processedMessages'[k].toolCalls) :
              IF k > Len(processedMessages)
              THEN processedMessages'[k].toolCalls[j].status = "pending"
              ELSE processedMessages[k].toolCalls[j].status = "completed"
                     => /\ processedMessages'[k].toolCalls[j].status
                             = "completed"
                        /\ processedMessages'[k].toolCalls[j].result
                             = processedMessages[k].toolCalls[j].result]_vars

(***************************************************************************)
(* More specifications and properties of the Polling variant.              *)
(***************************************************************************)
\* C15: stopStream() changes no state of the hook or of the page and leaves
\* every invocation in flight where it was, so a send in flight goes on as
\* it would have without the call.
C15_StopInert ==
  [][last'.op = "stopStream" =>
       UNCHANGED <<threadId, messages, isLoading, error, todos, files, ops,
                   nOps, threads>>]_vars

\* C15 witness: stopStream() was called while a send was in flight, and the
\* send is still in flight with isLoading true.
C15_Witness ==
  /\ last.op = "stopStream"
  /\ isLoading
  /\ \E i \in 1..MaxOps : ops[i].kind = "send" /\ ops[i].pc = "join"

\* loadThread alone, on threads the history shows, with the service
\* answering messages, todos and files
NextLoad ==
  \/ \E id \in Range(threads) : loadThread(id)
  \/ \E i \in 1..MaxOps :
       \E values \in Snapshots(LoadMessagesAnswers, TodosAnswers,
                               FilesAnswers) :
         LoadReturns(i, values)
  \/ \E i \in 1..MaxOps : \E m \in ErrMessages : LoadFails(i, m)
  \/ \E id \in Range(threads) : handleThreadSelect(id)
  \/ handleNewThread
  \/ OtherSessionCreates

SpecLoad == InitPolling /\ [][NextLoad]_vars

C17_ThreeValues ==
  /\ \A i \in 1..MaxOps :
       (ops[i].kind = "send" /\ InFlight(ops[i]))
         => messages = Append(ops[i].pre, HumanMessage(uuidv4(i), "Ola"))
  /\ (last.op = "sendSucceeded" /\ last.values.hasMessages)
       => messages = last.values.messages
  /\ last.op = "sendFailed" => messages = last.pre

\* C17 amended: every write of a send to the store is whole: its start
\* appends h to the store as it is, its success replaces the store by the
\* snapshot's full message sequence, its failure removes h and nothing else,
\* and the returns of wait, create and join do not write the store.
C17_AtomicWrites ==
  [][/\ last'.op = "sendMessage" =>
          messages' = Append(messages, HumanMessage(uuidv4(last'.i), "Ola"))
     /\ last'.op \in {"waitReturned", "createReturned", "joinReturned"} =>
          messages' = messages
     /\ last'.op = "sendSucceeded" =>
          messages' = IF last'.values.hasMessages
                      THEN last'.values.messages ELSE messages
     /\ last'.op = "sendFailed" =>
          messages' = SelectSeq(messages,
                                LAMBDA m : m.id # uuidv4(last'.i))]_vars

\* C17 witness: a second send, started on a non-empty store, has its
\* optimistic message in the store, after the earlier one.
C17_Witness ==
  /\ last.op = "sendMessage"
  /\ Len(last.pre) > 0
  /\ messages = Append(last.pre, HumanMessage(uuidv4(last.i), "Ola"))

\* the outstanding network call of invocation i returns or throws
Settle(i) ==
  \/ \E values \in Snapshots(SendMessagesAnswers(i), NoTodos, NoFiles) :
       WaitReturns(i, values) \/ GetStateReturns(i, values)
  \/ \E found \in SearchAnswers : SearchReturns(i, found)
  \/ CreateReturns(i)
  \/ JoinReturns(i)
  \/ \E values \in Snapshots(LoadMessagesAnswers, NoTodos, NoFiles) :
       LoadReturns(i, values)
  \/ \E m \in ErrMessages : CallFails(i, m) \/ LoadFails(i, m)

\* sends and loads alone
NextIdle ==
  \/ \E content \in {"Ola"} : sendMessage(content)
  \/ \E id \in Range(threads) : loadThread(id)
  \/ \E i \in 1..MaxOps : Settle(i)

\* every network call eventually returns or throws
SpecIdle ==
  InitPolling /\ [][NextIdle]_vars /\ \A i \in 1..MaxOps : WF_vars(Settle(i))

\* C18: every started send and every started loadThread, whether its
\* network calls return or fail, eventually ends, and when it ends isLoading
\* is false, so that a new send is accepted.
C18_ReturnToIdle ==
  \A i \in 1..MaxOps :
    InFlight(ops[i]) ~> (ops[i].pc = "done" /\ CanSubmit(isLoading))

\* C18 witness: a send has failed at its join call and the hook is idle.
C18_Witness ==
  /\ last.op = "sendFailed" /\ last.at = "join"
  /\ ops[last.i].pc = "done"
  /\ ~isLoading

\* C19: whenever the identity becomes none the store is emptied and the
\* error is cleared; clearMessages() does the same and changes neither the
\* identity nor isLoading.
C19_ClearOnReset ==
  [][/\ (~Falsy(threadId) /\ Falsy(threadId'))
          => (messages' = <<>> /\ error' = Null)
     /\ last'.op = "clearMessages"
          => /\ messages' = <<>> /\ error' = Null
             /\ threadId' = threadId /\ isLoading' = isLoading]_vars

\* C19 witness: the new-conversation action, enabled only on a non-empty
\* store, has set the identity to none while a send issued on an assigned
\* identity is in flight, and the store is empty.
C19_Witness ==
  /\ last.op = "handleNewThread"
  /\ Falsy(threadId)
  /\ messages = <<>> /\ error = Null
  /\ \E i \in 1..MaxOps :
       ops[i].kind = "send" /\ InFlight(ops[i]) /\ ~Falsy(ops[i].threadId)

(***************************************************************************)
(* The Streaming variant: the useChat hook (debounced todos and files      *)
(* updates, advisory copies in local storage, stopStream) and the page     *)
(* that owns the identity, the displayed todos and files and the           *)
(* thread-state fetch.  It shares threadId, messages, isLoading, todos,    *)
(* files and threads with the Polling variant's state.                     *)
(***************************************************************************)
\* todos and files values the update events of one behaviour carry
MaxEvents == 2
\* stream.submit calls in one behaviour
MaxRuns == 1

TodoDone == [id |-> "1", content |-> "write hook", status |-> "completed"]

\* the todos and files values update events carry
TodosValues == {<<TodoItem>>, <<TodoDone>>}
FilesValues == {{<<"hook1.txt", "copy">>}}

\* `thread_${threadId}_todos`, `thread_${threadId}_files`
StorageKey(tid, field) == "thread_" \o tid \o "_" \o field

\* JSON.stringify / JSON.parse of plain data
JSONStringify(value) == [json |-> value]
JSONParse(text) == text.json

\* localStorage.getItem: the stored string, or null
GetItem(storage, key) ==
  IF key \in DOMAIN storage THEN storage[key] ELSE Null

\* if (savedTodos): getItem gave a string; a JSON text is never empty
HasItem(storage, key) == key \in DOMAIN storage

\* localStorage.setItem
SetItem(storage, key, text) ==
  [k \in DOMAIN storage \cup {key} |-> IF k = key THEN text ELSE storage[k]]

\* Partial<StateType> of one node of an update event
NodeData(hasTodos, tds, hasFiles, fls) ==
  [hasTodos |-> hasTodos, todos |-> tds, hasFiles |-> hasFiles, files |-> fls]

NodeDatas ==
  {NodeData(FALSE, <<>>, FALSE, {})}
  \cup {NodeData(TRUE, t, FALSE, {}) : t \in TodosValues}
  \cup {NodeData(FALSE, <<>>, TRUE, f) : f \in FilesValues}
  \cup {NodeData(TRUE, t, TRUE, f) : t \in TodosValues, f \in FilesValues}

\* the update events: Object.entries(data), one or two nodes
UpdateEvents ==
  {<<n>> : n \in NodeDatas}
  \cup {<<NodeData(TRUE, <<TodoItem>>, FALSE, {}), n>> :
          n \in {NodeData(TRUE, <<TodoDone>>, FALSE, {}),
                 NodeData(FALSE, <<>>, TRUE, {<<"hook1.txt", "copy">>})}}

\* a clearTimeout that cancels nothing
clearTimeoutNothing(table, id) == table

\* clearTimeout(id); the pending timeouts are kept per channel
clearTimeout(table, id) ==
  [channel \in DOMAIN table |-> {t \in table[channel] : t.id # id}]

\* setTimeout(() => callback(value), 100); seq and run tell which received
\* value and which run the timeout belongs to
setTimeout(table, id, channel, value, seq, run) ==
  [table EXCEPT ![channel] =
     @ \cup {[id |-> id, value |-> value, seq |-> seq, run |-> run]}]

\* a debounce that schedules without cancelling the pending timeout
DebouncedNoClear(table, ref, id, channel, value, seq, run) ==
  setTimeout(table, id, channel, value, seq, run)

\* debouncedTodosUpdate / debouncedFilesUpdate: the timers after the call
Debounced(table, ref, id, channel, value, seq, run) ==
  setTimeout(IF ref # NoTimer THEN clearTimeout(table, ref) ELSE table,
             id, channel, value, seq, run)

\* the next timer id
NextTimerId(rcv) == Len(rcv.todos) + Len(rcv.files) + 1

\* try { localStorage.setItem(key, JSON.stringify(value)) } catch {}: the
\* write may throw (writeOk false) and is then skipped
Persist(storage, key, value, writeOk) ==
  IF writeOk THEN SetItem(storage, key, JSONStringify(value)) ELSE storage

\* a todos part that gives up when the write throws
HandleTodosAbort(st, nodeData, tid, run, writeOk) ==
  IF ~nodeData.hasTodos \/ ~writeOk THEN st
  ELSE LET id == NextTimerId(st.received)
       IN [st EXCEPT
             !.storage = Persist(st.storage, StorageKey(tid, "todos"),
                                 nodeData.todos, writeOk),
             !.timers = Debounced(st.timers, st.todosRef, id, "todos",
                                  nodeData.todos,
                                  Len(st.received.todos) + 1, run),
             !.todosRef = id,
             !.received.todos = Append(@, nodeData.todos)]

\* the todos part of one node: persist, then debounce
HandleTodos(st, nodeData, tid, run, writeOk) ==
  IF ~nodeData.hasTodos THEN st
  ELSE LET id == NextTimerId(st.received)
       IN [st EXCEPT
             !.storage = Persist(st.storage, StorageKey(tid, "todos"),
                                 nodeData.todos, writeOk),
             !.timers = Debounced(st.timers, st.todosRef, id, "todos",
                                  nodeData.todos,
                                  Len(st.received.todos) + 1, run),
             !.todosRef = id,
             !.received.todos = Append(@, nodeData.todos)]

\* a files part that debounces on the todos timeout reference
HandleFilesSharedRef(st, nodeData, tid, run, writeOk) ==
  IF ~nodeData.hasFiles THEN st
  ELSE LET id == NextTimerId(st.received)
       IN [st EXCEPT
             !.storage = Persist(st.storage, StorageKey(tid, "files"),
                                 nodeData.files, writeOk),
             !.timers = Debounced(st.timers, st.todosRef, id, "files",
                                  nodeData.files,
                                  Len(st.received.files) + 1, run),
             !.todosRef = id,
             !.received.files = Append(@, nodeData.files)]

\* the files part of one node
HandleFiles(st, nodeData, tid, run, writeOk) ==
  IF ~nodeData.hasFiles THEN st
  ELSE LET id == NextTimerId(st.received)
       IN [st EXCEPT
             !.storage = Persist(st.storage, StorageKey(tid, "files"),
                                 nodeData.files, writeOk),
             !.timers = Debounced(st.timers, st.filesRef, id, "files",
                                  nodeData.files,
                                  Len(st.received.files) + 1, run),
             !.filesRef = id,
             !.received.files = Append(@, nodeData.files)]

\* Object.entries(data).forEach(...)
RECURSIVE handleUpdateEvent(_, _, _, _, _)
handleUpdateEvent(st, data, tid, run, writeOk) ==
  IF Len(data) = 0 THEN st
  ELSE handleUpdateEvent(
         HandleFiles(HandleTodos(st, Head(data), tid, run, writeOk),
                     Head(data), tid, run, writeOk),
         Tail(data), tid, run, writeOk)

\* how many todos and files values an event carries
RECURSIVE NumValues(_)
NumValues(data) ==
  IF Len(data) = 0 THEN 0
  ELSE (IF Head(data).hasTodos THEN 1 ELSE 0)
       + (IF Head(data).hasFiles THEN 1 ELSE 0)
       + NumValues(Tail(data))

\* the thread history useStream shows after the identity changed to a
\* thread of the history
ThreadHistory == <<OlderMessage, AiMessage("a1", "Oi")>>

\* the page's effect on threadId (fetchThreadState): with no identity it
\* empties todos and files, otherwise it starts a fetch of the thread state
EffectTodos(oldThreadId, newThreadId, tds) ==
  IF newThreadId # oldThreadId /\ Falsy(newThreadId) THEN <<>> ELSE tds

EffectFiles(oldThreadId, newThreadId, fls) ==
  IF newThreadId # oldThreadId /\ Falsy(newThreadId) THEN {} ELSE fls

EffectFetching(oldThreadId, newThreadId, inFlight) ==
  IF newThreadId # oldThreadId /\ ~Falsy(newThreadId)
  THEN inFlight \cup {newThreadId} ELSE inFlight

\* useChat's sendMessage: stream.submit with the optimistic human message;
\* with no identity the transport creates the thread of the run
useChat_sendMessage(message) ==
  /\ CanSubmit(isLoading)
  /\ stream.run < MaxRuns
  /\ Falsy(threadId) => Len(threads) < MaxThreads
  /\ LET run == stream.run + 1
         humanMessage == HumanMessage(uuidv4(run), message)
         created == ThreadNames[Len(threads) + 1]
     IN /\ messages' = AppendOptimistic(messages, humanMessage)
        /\ isLoading' = TRUE
        /\ stream' = IF Falsy(threadId)
                     THEN [run |-> run, thread |-> created,
                           announced |-> FALSE, stopped |-> stream.stopped]
                     ELSE [run |-> run, thread |-> threadId,
                           announced |-> TRUE, stopped |-> stream.stopped]
        /\ threads' = IF Falsy(threadId) THEN Append(threads, created)
                      ELSE threads
  /\ last' = UserStep("useChat_sendMessage")
  /\ UNCHANGED <<threadId, error, todos, files, ops, nOps, projectorVars,
                 historyVars,
                 todosTimeoutRef, filesTimeoutRef, timers, localStorage,
                 fetching, received, delivered>>

\* onThreadId: setThreadId with the id of the thread the transport created
onThreadId ==
  /\ isLoading
  /\ ~stream.announced
  /\ threadId' = stream.thread
  /\ stream' = [stream EXCEPT !.announced = TRUE]
  /\ fetching' = EffectFetching(threadId, stream.thread, fetching)
  /\ last' = UserStep("onThreadId")
  /\ UNCHANGED <<messages, isLoading, error, todos, files, ops, nOps, threads,
                 projectorVars,
                 historyVars, todosTimeoutRef, filesTimeoutRef, timers,
                 localStorage, received, delivered>>

\* onUpdateEvent: handleUpdateEvent(data) for an event of the run in flight
onUpdateEvent(data, writeOk) ==
  /\ isLoading
  /\ Len(received.todos) + Len(received.files) + NumValues(data) <= MaxEvents
  /\ LET st == handleUpdateEvent(
                 [storage |-> localStorage, timers |-> timers,
                  todosRef |-> todosTimeoutRef, filesRef |-> filesTimeoutRef,
                  received |-> received],
                 data, threadId, stream.run, writeOk)
     IN /\ localStorage' = st.storage
        /\ timers' = st.timers
        /\ todosTimeoutRef' = st.todosRef
        /\ filesTimeoutRef' = st.filesRef
        /\ received' = st.received
  /\ last' = [UserStep("onUpdateEvent") EXCEPT
                !.i = stream.run,
                !.at = IF writeOk THEN "stored" ELSE "storeFailed",
                !.threadId = stream.thread,
                !.pre = data]
  /\ UNCHANGED <<threadId, messages, isLoading, error, todos, files, ops,
                 nOps, threads, projectorVars,
                 historyVars, stream, fetching, delivered>>

\* a pending timeout expires: onTodosUpdateRef.current(todos), the page's
\* handleTodosUpdate, or the same for files
timerFires(channel) ==
  /\ \E t \in timers[channel] :
       /\ timers' = [timers EXCEPT ![channel] = @ \ {t}]
       /\ todos' = IF channel = "todos" THEN t.value ELSE todos
       /\ files' = IF channel = "files" THEN t.value ELSE files
       /\ delivered' = [delivered EXCEPT ![channel] =
                          Append(@, [seq |-> t.seq, value |-> t.value,
                                     run |-> t.run])]
       /\ last' = [UserStep("timerFires") EXCEPT !.i = t.run, !.at = channel]
  /\ UNCHANGED <<threadId, messages, isLoading, error, ops, nOps, threads,
                 projectorVars, historyVars, todosTimeoutRef, filesTimeoutRef,
                 localStorage, stream, fetching, received>>

\* the run ends by itself
streamEnds ==
  /\ isLoading
  /\ isLoading' = FALSE
  /\ last' = UserStep("streamEnds")
  /\ UNCHANGED <<threadId, messages, error, todos, files, ops, nOps, threads,
                 projectorVars, historyVars, streamingVars>>

\* stream.stop(): the run in flight ends; stream.stopped remembers the runs
\* stop() was called on
Stop(str) == [str EXCEPT !.stopped = @ \cup {str.run}]

\* useChat's stopStream: stream.stop() and nothing else
useChat_stopStream ==
  /\ isLoading
  /\ isLoading' = FALSE
  /\ stream' = Stop(stream)
  /\ last' = [UserStep("useChat_stopStream") EXCEPT !.i = stream.run]
  /\ UNCHANGED <<threadId, messages, error, todos, files, ops, nOps, threads,
                 projectorVars,
                 historyVars, todosTimeoutRef, filesTimeoutRef, timers,
                 localStorage, fetching, received, delivered>>

\* the new-conversation button: stopStream() when loading, then the page's
\* handleNewThread; useStream follows the identity
page_handleNewThread ==
  /\ Len(messages) > 0
  /\ isLoading' = FALSE
  /\ threadId' = Null
  /\ todos' = <<>>
  /\ files' = {}
  /\ messages' = IF threadId # Null THEN <<>> ELSE messages
  /\ stream' = IF isLoading THEN Stop(stream) ELSE stream
  /\ last' = UserStep("page_handleNewThread")
  /\ UNCHANGED <<error, ops, nOps, threads, projectorVars,
                 historyVars, todosTimeoutRef,
                 filesTimeoutRef, timers, localStorage, fetching, received,
                 delivered>>

\* the user picks a thread of the history: setThreadId(id); the page's
\* effect starts the fetch of its state
page_handleThreadSelect(id) ==
  /\ id \in Range(threads)
  /\ id # threadId
  /\ threadId' = id
  /\ messages' = ThreadHistory
  /\ fetching' = EffectFetching(threadId, id, fetching)
  /\ last' = UserStep("page_handleThreadSelect")
  /\ UNCHANGED <<isLoading, error, todos, files, ops, nOps, threads,
                 projectorVars,
                 historyVars, todosTimeoutRef, filesTimeoutRef, timers,
                 localStorage, stream, received, delivered>>

\* currentState.todos || [] and currentState.files || {}
FetchedTodos(values) == IF values.hasTodos THEN values.todos ELSE <<>>
FetchedFiles(values) == IF values.hasFiles THEN values.files ELSE {}

\* a fallback that reads the copy of the first thread of the history
SavedTodosFirst(storage, tid) ==
  LET savedTodos == GetItem(storage, StorageKey(ThreadNames[1], "todos"))
  IN IF HasItem(storage, StorageKey(ThreadNames[1], "todos"))
     THEN JSONParse(savedTodos) ELSE <<>>

\* the fallback: the advisory copy of the thread, or empty
SavedTodos(storage, tid) ==
  LET savedTodos == GetItem(storage, StorageKey(tid, "todos"))
  IN IF HasItem(storage, StorageKey(tid, "todos"))
     THEN JSONParse(savedTodos) ELSE <<>>

SavedFiles(storage, tid) ==
  LET savedFiles == GetItem(storage, StorageKey(tid, "files"))
  IN IF HasItem(storage, StorageKey(tid, "files"))
     THEN JSONParse(savedFiles) ELSE {}

\* client.threads.getState(threadId) of the page's fetch returns
FetchReturns(id, hasValues, values) ==
  /\ id \in fetching
  /\ fetching' = fetching \ {id}
  /\ todos' = IF hasValues THEN FetchedTodos(values) ELSE todos
  /\ files' = IF hasValues THEN FetchedFiles(values) ELSE files
  /\ last' = [UserStep("fetchReturned") EXCEPT !.threadId = id]
  /\ UNCHANGED <<threadId, messages, isLoading, error, ops, nOps, threads,
                 projectorVars,
                 historyVars, todosTimeoutRef, filesTimeoutRef, timers,
                 localStorage, stream, received, delivered>>

\* client.threads.getState(threadId) of the page's fetch throws
FetchFails(id) ==
  /\ id \in fetching
  /\ fetching' = fetching \ {id}
  /\ todos' = SavedTodos(localStorage, id)
  /\ files' = SavedFiles(localStorage, id)
  /\ last' = [UserStep("fetchFailed") EXCEPT !.threadId = id]
  /\ UNCHANGED <<threadId, messages, isLoading, error, ops, nOps, threads,
                 projectorVars,
                 historyVars, todosTimeoutRef, filesTimeoutRef, timers,
                 localStorage, stream, received, delivered>>

\* the hook with its run, its timers and the new-conversation button; the
\* page's fetches stay outstanding
NextStreaming ==
  \/ \E message \in {"Ola"} : useChat_sendMessage(message)
  \/ onThreadId
  \/ \E data \in UpdateEvents : \E writeOk \in BOOLEAN :
       onUpdateEvent(data, writeOk)
  \/ \E channel \in {"todos", "files"} : timerFires(channel)
  \/ streamEnds
  \/ useChat_stopStream
  \/ page_handleNewThread

SpecStreaming == InitPolling /\ [][NextStreaming]_vars

\* the advisory copies earlier update events may have left in local storage
RECURSIVE StoredCopies(_)
StoredCopies(keys) ==
  IF keys = {} THEN {[key \in {} |-> Null]}
  ELSE LET key == CHOOSE k \in keys : TRUE
           rest == StoredCopies(keys \ {key})
           first == key[1] = ThreadNames[1]
           value == IF key[2] = "todos"
                    THEN (IF first THEN <<TodoItem>> ELSE <<TodoDone>>)
                    ELSE (IF first THEN {<<"hook1.txt", "copy">>}
                          ELSE {<<"hook2.txt", "copy">>})
       IN rest \cup
          {SetItem(storage, StorageKey(key[1], key[2]), JSONStringify(value)) :
             storage \in rest}

\* the page opened on a history of threads, with whatever advisory copies
\* earlier runs on those threads stored
InitPage ==
  /\ threadId = Null
  /\ messages = <<>>
  /\ isLoading = FALSE
  /\ error = Null
  /\ todos = <<>>
  /\ files = {}
  /\ ops = [k \in 1..MaxOps |-> NoOp]
  /\ nOps = 0
  /\ threads = SubSeq(ThreadNames, 1, MaxThreads)
  /\ processedMessages = <<>>
  /\ prevProcessed = <<>>
  /\ todosTimeoutRef = NoTimer
  /\ filesTimeoutRef = NoTimer
  /\ timers = [todos |-> {}, files |-> {}]
  /\ localStorage \in StoredCopies(Range(threads) \X {"todos", "files"})
  /\ stream = [run |-> 0, thread |-> Null, announced |-> TRUE,
              stopped |-> {}]
  /\ fetching = {}
  /\ received = [todos |-> <<>>, files |-> <<>>]
  /\ delivered = [todos |-> <<>>, files |-> <<>>]
  /\ history = NoHistory
  /\ last = UserStep("init")

\* the page: history selections, resets and the thread-state fetches
NextPage ==
  \/ page_handleNewThread
  \/ \E id \in Range(ThreadNames) : page_handleThreadSelect(id)
  \/ \E id \in Range(ThreadNames) :
       \E hasValues \in BOOLEAN :
         \E values \in Snapshots({<<FALSE, <<>>>>}, TodosAnswers,
                                 FilesAnswers) :
           FetchReturns(id, hasValues, values)
  \/ \E id \in Range(ThreadNames) : FetchFails(id)

SpecPage == InitPage /\ [][NextPage]_vars

--------------------------------------------------------------------------
\* Properties of the Streaming variant and of the page

Channels == {"todos", "files"}

\* a step that delivers a value of the channel to the page callback
Delivers(channel) == Len(delivered'[channel]) = Len(delivered[channel]) + 1

\* the delivery such a step makes
Delivery(channel) == delivered'[channel][Len(delivered'[channel])]

\* C12: debounce coalescing. The events of a channel that arrive with no
\* timer expiry between them leave one pending timeout, the one of the last
\* of them; the delivery made when it expires carries the value of the last
\* event received, a value that was not delivered before, and leaves nothing
\* pending, so no earlier value of the window is delivered.
C12_Coalescing ==
  [][\A channel \in Channels :
       /\ Cardinality(timers'[channel]) <= 1
       /\ \A t \in timers'[channel] :
            /\ t.seq = Len(received'[channel])
            /\ t.value = received'[channel][t.seq]
       /\ Delivers(channel) =>
            /\ Delivery(channel).seq = Len(received[channel])
            /\ Delivery(channel).value
                 = received[channel][Len(received[channel])]
            /\ \A k \in 1..Len(delivered[channel]) :
                 delivered[channel][k].seq # Delivery(channel).seq
            /\ timers'[channel] = {}]_vars

\* two todos events with different values arrived in one window and the one
\* delivery made carries the second
C12_Witness ==
  /\ Len(received.todos) = 2
  /\ received.todos[1] # received.todos[2]
  /\ Len(delivered.todos) = 1
  /\ delivered.todos[1].seq = 2
  /\ todos = received.todos[2]
  /\ timers.todos = {}

\* C13: debounce ordering. Within a channel the delivered values are a
\* subsequence of the received values in arrival order: every delivery is
\* the value of one received event, and the events of the deliveries are
\* strictly increasing.
C13_Ordering ==
  \A channel \in Channels :
    /\ \A k \in 1..Len(delivered[channel]) :
         /\ delivered[channel][k].seq \in 1..Len(received[channel])
         /\ delivered[channel][k].value
              = received[channel][delivered[channel][k].seq]
    /\ \A j, k \in 1..Len(delivered[channel]) :
         j < k => delivered[channel][j].seq < delivered[channel][k].seq

\* two todos events with different values were delivered one after the other
C13_Witness ==
  /\ Len(delivered.todos) = 2
  /\ delivered.todos[1].seq = 1
  /\ delivered.todos[2].seq = 2
  /\ delivered.todos[1].value # delivered.todos[2].value
  /\ todos = delivered.todos[2].value

\* C14: streaming stop. Once stop() was called on a run, no todos or files
\* value of an update event of that run is delivered to the page callbacks.
C14_StopSuppresses ==
  [][\A channel \in Channels :
       Delivers(channel) => Delivery(channel).run \notin stream.stopped]_vars

\* C20: fallback on fetch failure. When the fetch of the state of the
\* current thread fails, the displayed todos and files become the advisory
\* copies stored under the keys of that thread, and are empty where it has
\* none, whatever is stored for other threads.
C20_Fallback ==
  [][(last'.op = "fetchFailed" /\ last'.threadId = threadId) =>
       LET todosKey == "thread_" \o threadId \o "_todos"
           filesKey == "thread_" \o threadId \o "_files"
       IN /\ todos' = IF todosKey \in DOMAIN localStorage
                      THEN localStorage[todosKey].json ELSE <<>>
          /\ files' = IF filesKey \in DOMAIN localStorage
                      THEN localStorage[filesKey].json ELSE {}]_vars

\* the fetch for the current thread failed; its todos copy is displayed, it
\* has no files copy and files are empty, while another thread has copies
\* of both with other values
C20_Witness ==
  /\ last.op = "fetchFailed"
  /\ last.threadId = threadId
  /\ StorageKey(threadId, "todos") \in DOMAIN localStorage
  /\ todos = localStorage[StorageKey(threadId, "todos")].json
  /\ StorageKey(threadId, "files") \notin DOMAIN localStorage
  /\ files = {}
  /\ \E other \in Range(threads) \ {threadId} :
       /\ StorageKey(other, "todos") \in DOMAIN localStorage
       /\ localStorage[StorageKey(other, "todos")].json # todos
       /\ StorageKey(other, "files") \in DOMAIN localStorage

\* an update-event step that carried a value of the channel
Receives(channel) == Len(received'[channel]) > Len(received[channel])

\* the value of the last event received on the channel after the step
LastReceived(channel) == received'[channel][Len(received'[channel])]

\* C21: advisory copy key round trip. An update event of a run on thread X
\* that carries todos (resp. files) and whose write succeeds leaves its value
\* under the key of X, the first run of a newly created thread included, so
\* that the fallback read for X returns it.
C21_KeyRoundTrip ==
  [][(last'.op = "onUpdateEvent" /\ last'.at = "stored") =>
       \A channel \in Channels :
         Receives(channel) =>
           LET key == "thread_" \o stream.thread \o "_" \o channel
           IN /\ key \in DOMAIN localStorage'
              /\ localStorage'[key].json = LastReceived(channel)]_vars

\* the values of the channel the nodes of an update event carry, in order
Carried(data, channel) ==
  LET has(n) == IF channel = "todos" THEN n.hasTodos ELSE n.hasFiles
      val(n) == IF channel = "todos" THEN n.todos ELSE n.files
      F[k \in 0..Len(data)] ==
        IF k = 0 THEN <<>>
        ELSE IF has(data[k]) THEN Append(F[k - 1], val(data[k]))
        ELSE F[k - 1]
  IN F[Len(data)]

\* C22: persist failure is swallowed. When the write of the advisory copy
\* throws, the handler still completes: storage is as before, every todos
\* and files value of every node of the event is received in order, and for
\* each channel the event carries the timeout of its last value is pending.
C22_PersistFailureSwallowed ==
  [][(last'.op = "onUpdateEvent" /\ last'.at = "storeFailed") =>
       /\ localStorage' = localStorage
       /\ \A channel \in Channels :
            LET carried == Carried(last'.pre, channel)
            IN /\ received'[channel] = received[channel] \o carried
               /\ carried # <<>> =>
                    \E t \in timers'[channel] :
                      /\ t.seq = Len(received'[channel])
                      /\ t.value = carried[Len(carried)]]_vars

\* an event of two nodes, todos in the first and files in the second, whose
\* writes threw: nothing is stored and both timeouts are pending
C22_Witness ==
  /\ last.op = "onUpdateEvent"
  /\ last.at = "storeFailed"
  /\ Len(last.pre) = 2
  /\ last.pre[1].hasTodos
  /\ last.pre[2].hasFiles
  /\ DOMAIN localStorage = {}
  /\ \E t \in timers.todos : t.value = last.pre[1].todos
  /\ \E t \in timers.files : t.value = last.pre[2].files

--------------------------------------------------------------------------
\* The thread history: useThreadHistory and fetchThreadHistory build the
\* sidebar's threads from the listing call, ThreadHistorySidebar groups them

\* threads in one answer of the listing call
MaxHistory == 2

\* 1000 * 60 * 60 * 24
DayMs == 1000 * 60 * 60 * 24

\* the clock, in milliseconds, around which the timestamps lie
BaseTime == 12 * DayMs

\* String.prototype.slice(0, n)
Slice(s, n) == SubSeq(s, 1, IF Len(s) < n THEN Len(s) ELSE n)

LongText ==
  "Gere uma copy publicitaria para o cliente Acme com tres hooks diferentes"

\* a thread of the listing: values?.messages may be missing, updated_at too
ServerThread(id, hasMessages, msgs, created, hasUpdated, updated) ==
  [thread_id |-> id, hasMessages |-> hasMessages, messages |-> msgs,
   created_at |-> created, hasUpdated |-> hasUpdated, updated_at |-> updated]

StructuredMessage(id, blocks) == Message(id, "human", ArrayContent(blocks))

\* the threads the listing call may answer with: no messages, an empty
\* list, short and long string contents, structured contents; updated a
\* millisecond after the client's clock, now, and 1, 2, 6, 7 and 10 days ago
HistoryThreads ==
  {ServerThread("0a1b2c3d-0001", FALSE, <<>>, BaseTime, TRUE, BaseTime + 1),
   ServerThread("0a1b2c3d-0002", TRUE, <<>>, BaseTime, FALSE, 0),
   ServerThread("0a1b2c3d-0003", TRUE, <<HumanMessage("h1", "Ola")>>,
                BaseTime - DayMs, TRUE, BaseTime - DayMs + 1),
   ServerThread("0a1b2c3d-0004", TRUE,
                <<HumanMessage("h1", LongText), AiMessage("a1", "Oi")>>,
                BaseTime - DayMs, FALSE, 0),
   ServerThread("0a1b2c3d-0005", TRUE,
                <<StructuredMessage("h1", <<TextBlock(" a"),
                                            StringBlock("b ")>>)>>,
                BaseTime - 10 * DayMs, TRUE, BaseTime - 2 * DayMs),
   ServerThread("0a1b2c3d-0006", TRUE,
                <<StructuredMessage("h1", <<TextBlock(LongText),
                                            TextBlock("agora")>>)>>,
                BaseTime - 10 * DayMs, TRUE, BaseTime - 7 * DayMs + 1),
   ServerThread("0a1b2c3d-0007", TRUE, <<HumanMessage("h1", "Ola")>>,
                BaseTime - 7 * DayMs, FALSE, 0),
   ServerThread("0a1b2c3d-0008", TRUE, <<AiMessage("a1", "Oi")>>,
                BaseTime - 10 * DayMs, TRUE, BaseTime - 10 * DayMs)}

\* `Thread ${thread.thread_id.slice(0, 8)}`
FallbackTitle(thread) == "Thread " \o Slice(thread.thread_id, 8)

\* the title useThreadHistory's fetchThreads derives
fetchThreadsTitle(thread) ==
  IF thread.hasMessages /\ Len(thread.messages) > 0
  THEN LET firstMessage == thread.messages[1]
       IN IF ~firstMessage.content.isArray
          THEN Slice(firstMessage.content.text, 50)
          ELSE FallbackTitle(thread)
  ELSE FallbackTitle(thread)

\* the title fetchThreadHistory derives
extractFirstMessage(thread) ==
  IF thread.hasMessages /\ Len(thread.messages) > 0
  THEN extractStringFromMessageContent(thread.messages[1])
  ELSE FallbackTitle(thread)

\* new Date(thread.updated_at || thread.created_at)
UpdatedAt(thread) ==
  IF thread.hasUpdated THEN thread.updated_at ELSE thread.created_at

\* the sidebar's thread of a thread of the listing
ThreadItem(thread, title) ==
  [id |-> thread.thread_id, title |-> title, createdAt |-> thread.created_at,
   updatedAt |-> UpdatedAt(thread)]

\* Math.floor(diff / (1000 * 60 * 60 * 24))
Days(now, thread) == (now - thread.updatedAt) \div DayMs

\* the group the reduce pushes the thread to
GroupOf(days) ==
  IF days = 0 THEN "today"
  ELSE IF days = 1 THEN "yesterday"
  ELSE IF days < 7 THEN "week"
  ELSE "older"

\* threads.reduce(...): the four groups, each in the order of threads
groupedThreads(list, now) ==
  [group \in {"today", "yesterday", "week", "older"} |->
     SelectSeq(list, LAMBDA thread : GroupOf(Days(now, thread)) = group)]

\* useThreadHistory: the listing call returned, setThreads(threadList)
fetchThreads(response) ==
  /\ history' = [NoHistory EXCEPT
                   !.response = response,
                   !.threads = [k \in 1..Len(response) |->
                                  ThreadItem(response[k],
                                             fetchThreadsTitle(response[k]))]]
  /\ last' = UserStep("fetchThreads")
  /\ UNCHANGED <<messages, pollingVars, projectorVars, streamingVars>>

\* fetchThreadHistory: the same listing, titles by extractFirstMessage
fetchThreadHistory(response) ==
  /\ history' = [NoHistory EXCEPT
                   !.response = response,
                   !.threads = [k \in 1..Len(response) |->
                                  ThreadItem(response[k],
                                             extractFirstMessage(response[k]))]]
  /\ last' = UserStep("fetchThreadHistory")
  /\ UNCHANGED <<messages, pollingVars, projectorVars, streamingVars>>

\* ThreadHistorySidebar renders: the threads are grouped by new Date()
renderSidebar(now) ==
  /\ history' = [history EXCEPT
                   !.rendered = TRUE,
                   !.now = now,
                   !.groupedThreads = groupedThreads(history.threads, now)]
  /\ last' = UserStep("renderSidebar")
  /\ UNCHANGED <<messages, pollingVars, projectorVars, streamingVars>>

NextHistory ==
  \/ \E response \in UniqueSeqs(HistoryThreads, MaxHistory) :
       fetchThreads(response)
  \/ \E response \in UniqueSeqs(HistoryThreads, MaxHistory) :
       fetchThreadHistory(response)
  \/ \E now \in {BaseTime, BaseTime + DayMs - 1} : renderSidebar(now)

SpecHistory == InitPolling /\ [][NextHistory]_vars

\* the thread is in the group
InGroup(thread, group) ==
  \E k \in 1..Len(history.groupedThreads[group]) :
    history.groupedThreads[group][k] = thread

\* C23: history grouping. With d the whole-day difference between now and
\* the thread's updatedAt, every thread is in exactly one group: today for
\* d = 0, yesterday for d = 1, thisWeek for 2 <= d <= 6, older for d >= 7;
\* only threads with 2 <= d <= 6 are in thisWeek.
C23_Grouping ==
  history.rendered =>
    \A k \in 1..Len(history.threads) :
      LET thread == history.threads[k]
          d == (history.now - thread.updatedAt) \div DayMs
      IN /\ Cardinality({group \in {"today", "yesterday", "week", "older"} :
                           InGroup(thread, group)}) = 1
         /\ d = 0 => InGroup(thread, "today")
         /\ d = 1 => InGroup(thread, "yesterday")
         /\ (2 <= d /\ d <= 6) => InGroup(thread, "week")
         /\ d >= 7 => InGroup(thread, "older")
         /\ InGroup(thread, "week") => (2 <= d /\ d <= 6)

\* the text of a message: its string content, or the text segments of its
\* structured content put together
MessageText(message) ==
  LET content == message.content
      texts == SelectSeq(content.blocks,
                         LAMBDA block : block.type = "text" \/ block.isString)
  IN IF ~content.isArray THEN content.text
     ELSE Trim(Join([k \in 1..Len(texts) |-> texts[k].text]))

\* C24: history title. The title of a thread is its first message's string
\* content cut to 50 characters, or for structured content the text
\* segments put together and cut to 50 characters, or `Thread <id-prefix>`
\* when it has no messages; a title from a message has at most 50 characters.
C24_Title ==
  \A k \in 1..Len(history.threads) :
    LET thread == history.response[k]
        title == history.threads[k].title
    IN IF thread.hasMessages /\ Len(thread.messages) > 0
       THEN /\ title = Slice(MessageText(thread.messages[1]), 50)
            /\ Len(title) <= 50
       ELSE title = "Thread " \o SubSeq(thread.thread_id, 1, 8)

--------------------------------------------------------------------------
\* More properties of the Polling variant

\* the calls a send may be waiting on after the call it waited on
NextCalls(pc) ==
  IF pc = "create" THEN {"join"}
  ELSE IF pc = "join" THEN {"getState"}
  ELSE IF pc = "wait" THEN {"search"}
  ELSE {}

\* C25: polling call ordering. A send with an assigned identity waits on
\* create-run, then on join with the run create-run returned, then on
\* getState; a send with no identity waits on wait, then on the listing
\* call, and never on join; each call starts when the previous one returned,
\* and no step before the return of the last call writes the store, the aux
\* state or the identity.
C25_CallOrdering ==
  [][\A i \in 1..MaxOps :
       /\ (ops'[i].kind = "send" /\ ops[i].kind # "send") =>
            ops'[i].pc = IF ops'[i].threadId \in {Null, Empty}
                         THEN "wait" ELSE "create"
       /\ (ops[i].kind = "send" /\ ops'[i].pc # ops[i].pc) =>
            \/ ops'[i].pc = "done"
            \/ /\ ops'[i].pc \in NextCalls(ops[i].pc)
               /\ ops'[i].threadId = ops[i].threadId
               /\ ops'[i].pc = "join" => ops'[i].runId = RunId(i)
               /\ ops'[i].pc = "getState" => ops'[i].runId = ops[i].runId
               /\ messages' = messages /\ todos' = todos /\ files' = files
               /\ threadId' = threadId]_vars

\* a send on an assigned identity waits on getState after its create-run
\* and the join of the run it returned
C25_Witness ==
  \E i \in 1..MaxOps :
    /\ ops[i].kind = "send"
    /\ ops[i].pc = "getState"
    /\ ops[i].threadId \notin {Null, Empty}
    /\ ops[i].runId = RunId(i)
    /\ last.op = "joinReturned"

\* sendMessage alone, with the service answering messages, todos and files
NextSend ==
  \/ \E content \in {"Ola"} : sendMessage(content)
  \/ \E i \in 1..MaxOps :
       \E values \in Snapshots(SendMessagesAnswers(i), TodosAnswers,
                               FilesAnswers) :
         WaitReturns(i, values)
  \/ \E i \in 1..MaxOps : \E found \in SearchAnswers : SearchReturns(i, found)
  \/ \E i \in 1..MaxOps : CreateReturns(i)
  \/ \E i \in 1..MaxOps : JoinReturns(i)
  \/ \E i \in 1..MaxOps :
       \E values \in Snapshots(SendMessagesAnswers(i), TodosAnswers,
                               FilesAnswers) :
         GetStateReturns(i, values)
  \/ \E i \in 1..MaxOps : \E m \in ErrMessages : CallFails(i, m)

SpecSend == InitPolling /\ [][NextSend]_vars

--------------------------------------------------------------------------
\* More properties of the projector

\* the three sources of an ai message's tool-call descriptors, in the order
\* of precedence; a source the message does not have is empty
ToolCallSources(message) ==
  <<IF message.hasKwargsToolCalls THEN message.kwargsToolCalls ELSE <<>>,
    IF message.hasToolCalls
    THEN SelectSeq(message.toolCalls, LAMBDA toolCall : toolCall.name # Empty)
    ELSE <<>>,
    IF message.content.isArray
    THEN SelectSeq(message.content.blocks,
                   LAMBDA block : block.type = "tool_use")
    ELSE <<>>>>

\* the first source that is not empty, or no descriptors
FirstNonEmpty(sources) ==
  IF \A n \in 1..Len(sources) : sources[n] = <<>> THEN <<>>
  ELSE sources[CHOOSE n \in 1..Len(sources) :
                 /\ sources[n] # <<>>
                 /\ \A h \in 1..(n - 1) : sources[h] = <<>>]

\* C27: tool-call source precedence. The tool-call views of every ai entry
\* come, one per descriptor and in order, from the first of provider kwargs,
\* structured tool-call list and tool-use content blocks that is not empty;
\* a source that is present but empty does not hide a later one.
C27_SourcePrecedence ==
  \A k \in 1..Len(processedMessages) :
    processedMessages[k].message.type = "ai" =>
      LET expected ==
            FirstNonEmpty(ToolCallSources(processedMessages[k].message))
          views == processedMessages[k].toolCalls
      IN /\ Len(views) = Len(expected)
         /\ \A j \in 1..Len(views) :
              /\ views[j].name = ToolCallName(expected[j])
              /\ views[j].args = ToolCallArgs(expected[j])

\* the store without its p-th message
RemoveAt(msgs, p) == SubSeq(msgs, 1, p - 1) \o SubSeq(msgs, p + 1, Len(msgs))

\* the entry and the view a tool message with the id completes: the first
\* entry, in insertion order, with such a view, and its first such view
FirstMatch(processed, id) ==
  LET k == CHOOSE e \in 1..Len(processed) :
             /\ \E j \in 1..Len(processed[e].toolCalls) :
                  processed[e].toolCalls[j].id = id
             /\ \A d \in 1..(e - 1) :
                  \A j \in 1..Len(processed[d].toolCalls) :
                    processed[d].toolCalls[j].id # id
      j == CHOOSE v \in 1..Len(processed[k].toolCalls) :
             /\ processed[k].toolCalls[v].id = id
             /\ \A h \in 1..(v - 1) : processed[k].toolCalls[h].id # id
  IN <<k, j>>

\* C28: first-match completion. A tool message with a toolCallId added to
\* the store changes, in the projection computed with the same random
\* draws, only the first view with that id in insertion order, which gets
\* completed with the message's extracted text, and nothing when no view has
\* the id; once an ai message is added, a tool message that comes before
\* every ai message with a descriptor of its id leaves the projection as it
\* is without it.
C28_FirstMatch ==
  [][/\ (last'.op = "appendMessage"
           /\ messages'[Len(messages')].type = "tool"
           /\ messages'[Len(messages')].tool_call_id # Undefined) =>
          LET message == messages'[Len(messages')]
              id == message.tool_call_id
          IN \E rnd \in RandomDraws(messages) :
               LET before == ComputeProcessedMessages(messages, rnd)
                   after == processedMessages'
                   owned == \E k \in 1..Len(before) :
                              \E j \in 1..Len(before[k].toolCalls) :
                                before[k].toolCalls[j].id = id
               IN /\ after = ComputeProcessedMessages(messages', rnd)
                  /\ ~owned => after = before
                  /\ owned =>
                       LET m == FirstMatch(before, id)
                       IN after =
                            [before EXCEPT ![m[1]].toolCalls[m[2]] =
                               [@ EXCEPT
                                  !.status = "completed",
                                  !.result = MessageText(message)]]
     /\ \A p \in 1..Len(messages') :
          (/\ last'.op = "appendMessage"
           /\ messages'[Len(messages')].type = "ai"
           /\ messages'[p].type = "tool"
           /\ messages'[p].tool_call_id # Undefined
           /\ \A q \in 1..(p - 1) :
                messages'[q].type = "ai" =>
                  \A j \in 1..Len(toolCallsInMessage(messages'[q])) :
                    toolCallsInMessage(messages'[q])[j].id
                      # messages'[p].tool_call_id) =>
            \E rnd \in RandomDraws(messages') :
              /\ processedMessages' = ComputeProcessedMessages(messages', rnd)
              /\ processedMessages'
                   = ComputeProcessedMessages(RemoveAt(messages', p), rnd)]_vars

\* two ai entries own a view with the id c1; the tool message for c1 added
\* after them completed the view of the first and left the second pending
C28_Witness ==
  /\ last.op = "appendMessage"
  /\ Len(messages) = 3
  /\ messages[3].type = "tool" /\ messages[3].tool_call_id = "c1"
  /\ Len(processedMessages) = 2
  /\ Len(processedMessages[1].toolCalls) = 1
  /\ Len(processedMessages[2].toolCalls) = 1
  /\ processedMessages[1].toolCalls[1].id = "c1"
  /\ processedMessages[1].toolCalls[1].status = "completed"
  /\ processedMessages[1].toolCalls[1].result = "found"
  /\ processedMessages[2].toolCalls[1].id = "c1"
  /\ processedMessages[2].toolCalls[1].status = "pending"

\* the human and ai messages of the store, in store order
Conversation(msgs) ==
  SelectSeq(msgs, LAMBDA message : message.type \in {"human", "ai"})

\* one entry per human or ai message of the store, in store order, the
\* human entries without tool calls
EntriesOf(processed, msgs) ==
  /\ Len(processed) = Len(Conversation(msgs))
  /\ \A k \in 1..Len(processed) :
       /\ processed[k].message = Conversation(msgs)[k]
       /\ processed[k].message.type = "human" => processed[k].toolCalls = <<>>

\* C29: projection entries. The projection has exactly one entry per human
\* or ai message of the store, in store order, and none for tool and system
\* messages; human entries have no tool calls; computing the projection
\* leaves the store as it is.
C29_Entries ==
  [][/\ EntriesOf(processedMessages, messages)
     /\ EntriesOf(processedMessages', messages')
     /\ last'.op = "recompute" => messages' = messages
     /\ last'.op = "appendMessage" =>
          /\ Len(messages') = Len(messages) + 1
          /\ SubSeq(messages', 1, Len(messages)) = messages]_vars

\* the store holds a tool, a system and a human message; the projection,
\* computed again, is the one human entry
C29_Witness ==
  /\ last.op = "recompute"
  /\ Len(messages) = 3
  /\ \E k \in 1..3 : messages[k].type = "tool"
  /\ \E k \in 1..3 : messages[k].type = "system"
  /\ Len(processedMessages) = 1
  /\ processedMessages[1].message.type = "human"
  /\ processedMessages[1].toolCalls = <<>>

\* C30: showAvatar. An entry shows the avatar iff it is the first entry or
\* its message's role differs from the role of the entry before it; tool
\* messages, having no entry, do not count as predecessors.
C30_ShowAvatar ==
  \A k \in 1..Len(processedMessages) :
    /\ k <= Len(Conversation(messages))
    /\ processedMessages[k].showAvatar
         = (\/ k = 1
            \/ Conversation(messages)[k].type
                 # Conversation(messages)[k - 1].type)

\* two ai messages with a tool message between them: the second ai entry
\* follows an ai entry and shows no avatar
C30_Witness ==
  /\ last.op = "appendMessage"
  /\ Len(messages) = 3
  /\ messages[1].type = "ai"
  /\ messages[2].type = "tool"
  /\ messages[3].type = "ai"
  /\ Len(processedMessages) = 2
  /\ processedMessages[1].showAvatar
  /\ ~processedMessages[2].showAvatar

--------------------------------------------------------------------------
\* Properties across the handlers

\* the sends that have started and not yet finished
SendsInFlight(o) ==
  {i \in 1..MaxOps : o[i].kind = "send" /\ InFlight(o[i])}

C32_LoadingTracksWork ==
  (\E i \in 1..MaxOps : InFlight(ops[i])) => isLoading

\* C33: page aux state follows identity. A thread-state fetch that resolves
\* or fails for a thread other than the current identity leaves the
\* displayed todos and files alone, and once no fetch is outstanding an
\* identity of none shows empty todos and files.
C33_AuxFollowsIdentity ==
  [][/\ (last'.op \in {"fetchReturned", "fetchFailed"}
           /\ last'.threadId # threadId') =>
          (todos' = todos /\ files' = files)
     /\ (fetching' = {} /\ threadId' = Null) =>
          (todos' = <<>> /\ files' = {})]_vars

\* C34: no resurrection after reset (Polling). When new-conversation has
\* reset the identity to none while a send was in flight, the completion of
\* that send leaves the store empty and the identity none.
C34_NoResurrection ==
  [][(/\ last.op = "handleNewThread"
      /\ threadId = Null /\ messages = <<>>
      /\ last'.op = "sendSucceeded") =>
       (messages' = <<>> /\ threadId' = Null)]_vars

\* C35: no stale debounced delivery after reset (Streaming). Right after
\* new-conversation has set the identity to none and cleared the displayed
\* todos and files, no update event of a new run has arrived yet: no
\* delivery reaches the page, and the displayed todos and files stay empty.
C35_NoStaleDelivery ==
  [][last.op = "page_handleNewThread" =>
       /\ \A channel \in Channels : ~Delivers(channel)
       /\ todos' = <<>> /\ files' = {}]_vars

\* C36: the debounce channels are independent. An update event that carries
\* no value of a channel leaves the pending timeout of that channel and its
\* reference as they were (not cancelled, not rescheduled, same value); an
\* event that carries values of both channels schedules one timeout on each,
\* with the last value it carries for that channel.
C36_ChannelsIndependent ==
  [][last'.op = "onUpdateEvent" =>
       \A channel \in Channels :
         LET other == CHOOSE c \in Channels : c # channel
             carried == Carried(last'.pre, channel)
             ref == IF channel = "todos" THEN todosTimeoutRef
                    ELSE filesTimeoutRef
             refAfter == IF channel = "todos" THEN todosTimeoutRef'
                         ELSE filesTimeoutRef'
         IN /\ carried = <<>> =>
                 (timers'[channel] = timers[channel] /\ refAfter = ref)
            /\ (carried # <<>> /\ Carried(last'.pre, other) # <<>>) =>
                 \E t \in timers'[channel] :
                   /\ timers'[channel] \ timers[channel] = {t}
                   /\ t.id = refAfter
                   /\ t.value = carried[Len(carried)]]_vars

\* an event carrying only files has arrived while a todos delivery was
\* pending, and both deliveries are now pending
C36_Witness ==
  /\ last.op = "onUpdateEvent"
  /\ Carried(last.pre, "todos") = <<>>
  /\ Carried(last.pre, "files") # <<>>
  /\ Cardinality(timers.todos) = 1
  /\ Cardinality(timers.files) = 1
  /\ \A t \in timers.todos : t.id = todosTimeoutRef /\ t.seq = 1

==========================================================================
